---------------------------- MODULE Spec2Model ----------------------------
(***************************************************************************)
(* A model of the bookspointer ingestion and reconciliation pipeline:      *)
(*   - BookScraper.get_cate_id         (the category classifier)           *)
(*   - BookScraper.get_html_pages, get_book_content, get_book_details      *)
(*                                     (resolver, fetcher, orchestrator)   *)
(*   - AuthorSheetManager.run and its helpers (the ledger reconcile)       *)
(*                                                                         *)
(* Text is modelled as a sequence of chunks.  A chunk is an indivisible    *)
(* piece of text (a word, a blank, a tag); Python's `in` on strings is a   *)
(* contiguous-subsequence test on chunks, `' '.join` and `'<br/>'.join`    *)
(* interleave a separator chunk.                                           *)
(***************************************************************************)
EXTENDS Integers, Sequences, FiniteSets, TLC

VARIABLES
    \* ---- classifier (scraper.py get_cate_id) ----
    categories,      \* the taxonomy table loaded from categories.json
    category_name,   \* the label sequence handed to get_cate_id
    cate_id,         \* the value get_cate_id returned
    cl_pc,           \* "ready" | "returned"
    \* ---- the source site, as one book's landing page and content pages ----
    site_gated,      \* the landing page carries div.ld-course-status-action a
    site_anchors,    \* hrefs of the a.ld-item-name anchors, in page order
    site_empty,      \* content pages whose div.ld-tabs-content > div is empty
    \* ---- crawl orchestrator (scraper.py get_book_details) ----
    login_required,  \* lines of login_required.txt
    gb_pc,           \* "idle" | "landing" | "resolve" | "pages" | "returned"
    call,            \* arguments: book_info, author_id, multi_page
    book,            \* local: the record built from the landing page
    books_urls,      \* local: what get_html_pages returned
    idx,             \* local: pages processed by the for loop
    contents,        \* local: the list of page contents
    books,           \* local: the list being returned
    result,          \* the returned list
    gb_exit,         \* how the call ended: "" | "landing_error" |
                     \*   "resolver_error" | "completed" | "raised"
    fetched,         \* per processed page: its outcome (history)
    \* ---- the stores the reconcile run works on ----
    source,          \* the external author source: its non-empty pages
    ledger,          \* the worksheet's rows below the header
    catalog,         \* author ids the catalog created (POST authors/)
    \* ---- reconcile (sheet.py AuthorSheetManager.run) ----
    rc_pc,           \* "idle" | "fetch" | "save" | "reread" | "update" |
                     \*   "create"
    page_no,         \* local i of the paging loop
    authors,         \* local: the accumulated batch
    unscraped_authors, \* local: what get_unscraped_authors returned
    pos,             \* local: position in unscraped_authors
    rc_exit,         \* how the last run ended: "" | "returned" | "raised"
    failures,        \* external calls that failed so far
    create_calls,    \* records handed to author_api.create (history)
    run_log,         \* per run started (history): clean = no paging or
                     \*   ledger-write failure yet, appended = rows appended
    \* ---- token rotation (server.py TokenAPI.get_all_tokens) ----
    users,           \* the catalog's user records (GET users/)
    tokens,          \* the list get_all_tokens returned
    tk_pc,           \* "ready" | "returned"
    tk_exit,         \* how the call ended: "" | "ok" | "status" | "raised"
    \* ---- posting pipeline (api.py BookspointerAPI.post_book) ----
    posted,          \* the catalog's is_posted flag of each book
    post_log         \* per post_book call (history): book, publisher
                     \*   response, PATCH outcome, what book_api.update
                     \*   returned, flag before and after, branch taken,
                     \*   raised or returned

cl_vars == <<categories, category_name, cate_id, cl_pc>>
site_vars == <<site_gated, site_anchors, site_empty>>
gb_locals == <<call, book, books_urls, idx, contents, books, result, gb_exit,
               fetched>>
gb_vars == <<site_vars, login_required, gb_pc, gb_locals>>

store_vars == <<source, ledger, catalog>>
rc_locals == <<page_no, authors, unscraped_authors, pos>>
rc_hist == <<rc_exit, failures, create_calls, run_log>>
rc_vars == <<store_vars, rc_pc, rc_locals, rc_hist>>

tk_vars == <<users, tokens, tk_pc, tk_exit>>
pb_vars == <<posted, post_log>>
post_vars == <<tk_vars, pb_vars>>

vars == <<cl_vars, gb_vars, rc_vars, post_vars>>

\* Token rotation at rest, with no user record.
tk_Parked ==
    /\ users = <<>>
    /\ tokens = <<>>
    /\ tk_pc = "ready"
    /\ tk_exit = ""

\* The posting pipeline at rest, with no book in the catalog.
pb_Parked ==
    /\ posted = <<>>
    /\ post_log = <<>>

\* The reconcile component at rest, with empty stores.
rc_Parked ==
    /\ source = <<>>
    /\ ledger = <<>>
    /\ catalog = <<>>
    /\ rc_pc = "idle"
    /\ page_no = 0
    /\ authors = <<>>
    /\ unscraped_authors = <<>>
    /\ pos = 0
    /\ rc_exit = ""
    /\ failures = 0
    /\ create_calls = <<>>
    /\ run_log = <<>>

(***************************************************************************)
(* Text helpers                                                            *)
(***************************************************************************)

SP == " "
BR == "<br/>"

\* Python `p in s` for strings: p occurs in s as a contiguous run.
Contains(s, p) ==
    \E i \in 0..(Len(s) - Len(p)) : SubSeq(s, i + 1, i + Len(p)) = p

\* Python `sep.join(parts)` where parts is a list of strings.
RECURSIVE Join(_, _)
Join(parts, sep) ==
    IF Len(parts) = 0 THEN <<>>
    ELSE IF Len(parts) = 1 THEN parts[1]
    ELSE parts[1] \o <<sep>> \o Join(Tail(parts), sep)

\* All sequences over S of length 0..n.
SeqsUpTo(S, n) == UNION {[1..k -> S] : k \in 0..n}

(***************************************************************************)
(* Category classifier: BookScraper.get_cate_id                            *)
(***************************************************************************)

DefaultId == 20

\* The elif chain of get_cate_id, in source order: the text searched for
\* and the id returned.  Chunks transliterate the Bengali words:
\*   itihas=ইতিহাস koutuk=কৌতুক uponyas=উপন্যাস thrilar=থ্রিলার rohosyo=রহস্য
\*   romancho=রোমাঞ্চ adventure=অ্যাডভেঞ্চার golpogrontho=গল্পগ্রন্থ golper=গল্পের
\*   boi=বই bhromon=ভ্রমণ kahini=কাহিনী boigyanik=বৈজ্ঞানিক kolpokahini=কল্পকাহিনী
\*   dhormo=ধর্ম o=ও dorshon=দর্শন islamik=ইসলামিক dhormiyo=ধর্মীয় songskrito=সংস্কৃত
\*   kabyogrontho=কাব্যগ্রন্থ kobita=কবিতা probondho=প্রবন্ধ gobeshona=গবেষণা
\*   rochona=রচনা kishor=কিশোর sahityo=সাহিত্য atmojiboni=আত্মজীবনী
\*   smritikotha=স্মৃতিকথা atmounnoyonmulok=আত্মউন্নয়নমূলক natok=নাটক
\*   goyenda=গোয়েন্দা bhoutik=ভৌতিক horor=হরর bhuter=ভূতের
Rules == <<
    [pat |-> <<"itihas">>,                                  id |-> 1],
    [pat |-> <<"koutuk">>,                                  id |-> 2],
    [pat |-> <<"uponyas">>,                                 id |-> 3],
    [pat |-> <<"thrilar", SP, "rohosyo", SP, "romancho", SP, "adventure">>,
                                                            id |-> 4],
    [pat |-> <<"golpogrontho">>,                            id |-> 5],
    [pat |-> <<"golper", SP, "boi">>,                       id |-> 5],
    [pat |-> <<"bhromon", SP, "kahini">>,                   id |-> 6],
    [pat |-> <<"boigyanik", SP, "kolpokahini">>,            id |-> 9],
    [pat |-> <<"dhormo", SP, "o", SP, "dorshon">>,          id |-> 10],
    [pat |-> <<"islamik", SP, "boi">>,                      id |-> 10],
    [pat |-> <<"dhormiyo", SP, "boi">>,                     id |-> 10],
    [pat |-> <<"songskrito">>,                              id |-> 10],
    [pat |-> <<"kabyogrontho", SP, "/", SP, "kobita">>,     id |-> 12],
    [pat |-> <<"probondho", SP, "o", SP, "gobeshona">>,     id |-> 13],
    [pat |-> <<"rochona">>,                                 id |-> 13],
    [pat |-> <<"kishor", SP, "sahityo">>,                   id |-> 14],
    [pat |-> <<"atmojiboni", SP, "o", SP, "smritikotha">>,  id |-> 15],
    [pat |-> <<"atmounnoyonmulok", SP, "boi">>,             id |-> 15],
    [pat |-> <<"natok">>,                                   id |-> 16],
    [pat |-> <<"goyenda">>,                                 id |-> 18],
    [pat |-> <<"bhoutik">>,                                 id |-> 19],
    [pat |-> <<"horor">>,                                   id |-> 19],
    [pat |-> <<"bhuter", SP, "boi">>,                       id |-> 19],
    [pat |-> <<"Editor's", SP, "Choice">>,                  id |-> 5]
>>

\* A variant of the test with the operands of `in` exchanged.
RuleMatchesSwapped(key, r) == Contains(Rules[r].pat, key)

\* One `elif <text> in category_name` test.
RuleMatches(key, r) == Contains(key, Rules[r].pat)

\* A variant of the chain in which the last matching rule wins.
RECURSIVE ElifChainLastWins(_, _)
ElifChainLastWins(key, r) ==
    IF r > Len(Rules) THEN DefaultId
    ELSE LET later == ElifChainLastWins(key, r + 1)
         IN  IF later # DefaultId THEN later
             ELSE IF RuleMatches(key, r) THEN Rules[r].id
             ELSE DefaultId

\* The elif chain: the id of the first rule whose text occurs in the key,
\* and the else branch's 20 when none does.
RECURSIVE ElifChain(_, _)
ElifChain(key, r) ==
    IF r > Len(Rules) THEN DefaultId
    ELSE IF RuleMatches(key, r) THEN Rules[r].id
    ELSE ElifChain(key, r + 1)

\* The body of `for category in categories`.  Every branch of the body
\* returns, so the loop never reaches a second entry.
LoopBody(category, key) ==
    IF category.label = key THEN category.id ELSE ElifChain(key, 1)

\* get_cate_id(category_name): join the labels, run the loop; the trailing
\* `return 20` is reached only when the table is empty.
get_cate_id(cats, labels) ==
    LET key == Join(labels, SP)
    IN  IF Len(cats) = 0 THEN DefaultId ELSE LoopBody(cats[1], key)

(***************************************************************************)
(* Title clean-up and landing-page extraction (get_book_details)           *)
(***************************************************************************)

Dash == "&ndash;"
BanglaDigits == {"bn0", "bn1", "bn2", "bn3", "bn4", "bn5", "bn6", "bn7",
                 "bn8", "bn9"}
PrefixSeparators == {".", "-", SP}

RECURSIVE DropWhile(_, _)
DropWhile(s, S) ==
    IF Len(s) > 0 /\ s[1] \in S THEN DropWhile(Tail(s), S) ELSE s

\* re.sub(r"^[০-৯]+[\.\-\s]*", "", title): a leading run of Bangla
\* digits (at least one) and the dots, dashes and blanks after it.
remove_bangla_number_prefix(title) ==
    IF Len(title) > 0 /\ title[1] \in BanglaDigits
    THEN DropWhile(DropWhile(title, BanglaDigits), PrefixSeparators)
    ELSE title

RECURSIVE Reverse(_)
Reverse(s) == IF Len(s) = 0 THEN <<>> ELSE Append(Reverse(Tail(s)), s[1])

\* str.strip(): blanks removed at both ends.
Strip(s) == Reverse(DropWhile(Reverse(DropWhile(s, {SP})), {SP}))

\* s.split(sep)[0]: the text before the first separator.
RECURSIVE BeforeFirst(_, _)
BeforeFirst(s, sep) ==
    IF Len(s) = 0 \/ s[1] = sep THEN <<>>
    ELSE <<s[1]>> \o BeforeFirst(Tail(s), sep)

\* s.split(sep)[-1]: the text after the last separator.
RECURSIVE AfterLast(_, _)
AfterLast(s, sep) ==
    IF \E i \in 1..Len(s) : s[i] = sep THEN AfterLast(Tail(s), sep) ELSE s

\* The title taken from h1.page-header-title: the text before the dash when
\* there is one, else the whole heading.
LandingTitle(h1) ==
    IF Contains(h1, <<Dash>>) THEN Strip(BeforeFirst(h1, Dash)) ELSE h1

\* The landing pages of the books the crawler is given, by link.
BookLinks == {"b1", "b2"}

LandingPage(link) ==
    IF link = "b1"
    THEN [h1 |-> <<"bn1", "bn2", ".", SP, "Title1", SP, Dash, SP, "Author1">>,
          category |-> << <<"uponyas">> >>,
          has_series |-> TRUE,
          series |-> <<"Series1">>,
          tab_id |-> <<"ld", "-", "tab", "-", "content", "-", "101">>]
    ELSE [h1 |-> <<"Title2">>,
          category |-> << <<"bhoutik">>, <<"golper", SP, "boi">> >>,
          has_series |-> FALSE,
          series |-> <<>>,
          tab_id |-> <<"ld", "-", "tab", "-", "content", "-", "102">>]

BookInfos ==
    {[title |-> <<"Listed", l>>, author |-> <<"Author", l>>, link |-> l] :
        l \in BookLinks}

\* The record get_book_details builds from the landing page (content '').
LandingBook(cats, book_info, author_id) ==
    LET page == LandingPage(book_info.link)
    IN  [book_id |-> AfterLast(page.tab_id, "-"),
         title |-> remove_bangla_number_prefix(LandingTitle(page.h1)),
         author |-> book_info.author,
         author_id |-> author_id,
         category |-> page.category,
         category_id |-> get_cate_id(cats, page.category),
         series |-> IF page.has_series THEN page.series ELSE page.category,
         content |-> <<>>,
         url |-> book_info.link]

(***************************************************************************)
(* Pagination resolver and content fetcher                                 *)
(***************************************************************************)

PageUrls == {"p1", "p2", "p3"}
PageText == [p1 |-> "A", p2 |-> "B", p3 |-> "C"]

\* What a transport-level request can do.
FetchOutcomes == {"ok", "fail"}

\* A page that arrives may lack an element the extraction dereferences
\* (css_first returns None): the AttributeError is caught nowhere.
PageOutcomes == FetchOutcomes \cup {"malformed"}

\* A variant of the resolver that does not look at the login marker.
get_html_pagesIgnoreGate(gated, anchors) == anchors

\* get_html_pages after a successful fetch: [] for a login-gated page, else
\* the anchors' hrefs.
get_html_pages(gated, anchors) == IF gated THEN <<>> ELSE anchors

\* The lines get_html_pages leaves in login_required.txt.
SkipLogAfter(log, gated, book_url) ==
    IF gated THEN Append(log, book_url) ELSE log

\* The children of a content page's div.ld-tabs-content > div.
PageInner(url, empty) ==
    IF url \in empty THEN <<>>
    ELSE <<"<p>", PageText[url], "</p>", "<button>">>

\* The h1 of a content page.
PageH1(url) == <<"bn2", ".", SP, "Chapter", url>>

\* response.text.replace('</p>', '</p><br/>')
RECURSIVE ReplaceP(_)
ReplaceP(s) ==
    IF Len(s) = 0 THEN <<>>
    ELSE IF s[1] = "</p>" THEN <<"</p>", BR>> \o ReplaceP(Tail(s))
    ELSE <<s[1]>> \o ReplaceP(Tail(s))

\* button.decompose() for every button of the container.
RECURSIVE RemoveButtons(_)
RemoveButtons(s) ==
    IF Len(s) = 0 THEN <<>>
    ELSE IF s[1] = "<button>" THEN RemoveButtons(Tail(s))
    ELSE <<s[1]>> \o RemoveButtons(Tail(s))

None == [some |-> FALSE]

\* A variant of the fetcher that hands back an empty record for a failed
\* request.
get_book_contentOnFail(url, empty, outcome) ==
    IF outcome = "malformed" THEN None
    ELSE IF outcome = "fail"
    THEN [some |-> TRUE, content |-> <<>>, title |-> PageH1(url)]
    ELSE [some |-> TRUE,
          content |-> <<"<div>">>
                      \o RemoveButtons(ReplaceP(PageInner(url, empty)))
                      \o <<"</div>">>,
          title |-> PageH1(url)]

\* get_book_content(url): None when the request fails, else the serialised
\* container (str(content_div.html)) and the page's title.
get_book_content(url, empty, outcome) ==
    IF outcome # "ok" THEN None
    ELSE [some |-> TRUE,
          content |-> <<"<div>">>
                      \o RemoveButtons(ReplaceP(PageInner(url, empty)))
                      \o <<"</div>">>,
          title |-> PageH1(url)]

\* The per-page record of split mode.
BookCopy(b, new_content, book_url) ==
    [b EXCEPT !.title = remove_bangla_number_prefix(new_content.title),
              !.content = new_content.content,
              !.url = book_url]

\* A variant of the end without the test for empty content.
FinalBooksKeepEmpty(bks, b, cts) ==
    Append(bks, [b EXCEPT !.content = Join(cts, BR)])

\* A variant of the end that joins the contents last page first.
FinalBooksReversed(bks, b, cts) ==
    LET content == Join(Reverse(cts), BR)
    IN  IF content = <<>> THEN bks
        ELSE Append(bks, [b EXCEPT !.content = content])

\* The end of get_book_details: join the contents, drop the book when the
\* joined content is '', else append it.
FinalBooks(bks, b, cts) ==
    LET content == Join(cts, BR)
    IN  IF content = <<>> THEN bks
        ELSE Append(bks, [b EXCEPT !.content = content])

\* A variant of the handler that returns what was built so far.
ExceptReturnPartial(bks, b) == Append(bks, b)

\* `except requests.RequestException`: return [].
ExceptReturn(bks, b) == <<>>

(***************************************************************************)
(* Crawl orchestrator: BookScraper.get_book_details, step by step          *)
(***************************************************************************)

MaxPages == 3
MaxLogLines == 2

AuthorIdArgs == {42}
NoCall == [book_info |-> [title |-> <<>>, author |-> <<>>, link |-> ""],
           author_id |-> 0, multi_page |-> FALSE]
NoBook == [url |-> ""]

\* The taxonomy table in force while crawling.
CrawlCategories == << [label |-> <<"uponyas">>, id |-> 7],
                      [label |-> <<"onubad">>, id |-> 19] >>

gb_Parked ==
    /\ gb_pc = "idle"
    /\ call = NoCall
    /\ book = NoBook
    /\ books_urls = <<>>
    /\ idx = 0
    /\ contents = <<>>
    /\ books = <<>>
    /\ result = <<>>
    /\ gb_exit = ""
    /\ fetched = <<>>

gb_Init ==
    /\ site_gated \in BOOLEAN
    /\ site_anchors \in SeqsUpTo(PageUrls, MaxPages)
    /\ site_empty \in SUBSET PageUrls
    /\ login_required = <<>>
    /\ gb_Parked
    /\ categories = CrawlCategories
    /\ category_name = <<>>
    /\ cate_id = 0
    /\ cl_pc = "ready"
    /\ rc_Parked
    /\ tk_Parked
    /\ pb_Parked

\* get_book_details(book_info, author_id, multi_page) is called: books = [].
GetBookDetails ==
    /\ gb_pc = "idle"
    /\ Len(login_required) < MaxLogLines
    /\ \E bi \in BookInfos, a \in AuthorIdArgs, mp \in BOOLEAN :
        call' = [book_info |-> bi, author_id |-> a, multi_page |-> mp]
    /\ gb_pc' = "landing"
    /\ UNCHANGED <<book, books_urls, idx, contents, books, result, gb_exit,
                   fetched>>
    /\ UNCHANGED <<site_vars, login_required, cl_vars, rc_vars, post_vars>>

\* requests.get(book_info['link']) and the extraction of the landing page;
\* a RequestException ends the call with [], a missing element raises.
FetchLanding ==
    /\ gb_pc = "landing"
    /\ \E o \in PageOutcomes :
        IF o # "ok"
        THEN /\ result' = IF o = "fail" THEN ExceptReturn(books, book)
                                        ELSE <<>>
             /\ gb_exit' = IF o = "fail" THEN "landing_error" ELSE "raised"
             /\ gb_pc' = "returned"
             /\ UNCHANGED <<book, contents>>
        ELSE /\ book' = LandingBook(categories, call.book_info, call.author_id)
             /\ contents' = << <<>> >>
             /\ gb_pc' = "resolve"
             /\ UNCHANGED <<result, gb_exit>>
    /\ UNCHANGED <<call, books_urls, idx, books, fetched>>
    /\ UNCHANGED <<site_vars, login_required, cl_vars, rc_vars, post_vars>>

\* books_urls = self.get_html_pages(book_info['link']): a second request for
\* the landing page; its RequestException is caught by get_book_details.
GetHtmlPages ==
    /\ gb_pc = "resolve"
    /\ \E o \in FetchOutcomes :
        IF o = "fail"
        THEN /\ result' = ExceptReturn(books, book)
             /\ gb_exit' = "resolver_error"
             /\ gb_pc' = "returned"
             /\ UNCHANGED <<books_urls, login_required>>
        ELSE /\ login_required' =
                    SkipLogAfter(login_required, site_gated, call.book_info.link)
             /\ books_urls' = get_html_pages(site_gated, site_anchors)
             /\ gb_pc' = "pages"
             /\ UNCHANGED <<result, gb_exit>>
    /\ UNCHANGED <<call, book, idx, contents, books, fetched>>
    /\ UNCHANGED <<site_vars, cl_vars, rc_vars, post_vars>>

\* One iteration of `for idx, book_url in enumerate(books_urls, start=1)`.
ProcessPage ==
    /\ gb_pc = "pages"
    /\ idx < Len(books_urls)
    /\ \E o \in PageOutcomes :
        LET book_url == books_urls[idx + 1]
            new_content == get_book_content(book_url, site_empty, o)
        IN  /\ fetched' = Append(fetched, o)
            /\ IF o = "malformed"
               THEN /\ gb_exit' = "raised"
                    /\ gb_pc' = "returned"
                    /\ UNCHANGED <<books, contents>>
               ELSE /\ UNCHANGED <<gb_exit, gb_pc>>
                    /\ IF new_content.some
                       THEN IF call.multi_page
                            THEN /\ books' = Append(books,
                                        BookCopy(book, new_content, book_url))
                                 /\ UNCHANGED contents
                            ELSE /\ contents' =
                                        Append(contents, new_content.content)
                                 /\ UNCHANGED books
                       ELSE UNCHANGED <<books, contents>>
    /\ idx' = idx + 1
    /\ UNCHANGED <<call, book, books_urls, result>>
    /\ UNCHANGED <<site_vars, login_required, cl_vars, rc_vars, post_vars>>

\* After the loop: book['content'] = '<br/>'.join(contents) and the return.
FinishBook ==
    /\ gb_pc = "pages"
    /\ idx = Len(books_urls)
    /\ result' = FinalBooks(books, book, contents)
    /\ gb_exit' = "completed"
    /\ gb_pc' = "returned"
    /\ UNCHANGED <<call, book, books_urls, idx, contents, books, fetched>>
    /\ UNCHANGED <<site_vars, login_required, cl_vars, rc_vars, post_vars>>

\* The caller takes the list (or the exception); the locals of the call are
\* gone.
BooksTaken ==
    /\ gb_pc = "returned"
    /\ gb_pc' = "idle"
    /\ call' = NoCall
    /\ book' = NoBook
    /\ books_urls' = <<>>
    /\ idx' = 0
    /\ contents' = <<>>
    /\ books' = <<>>
    /\ result' = <<>>
    /\ gb_exit' = ""
    /\ fetched' = <<>>
    /\ UNCHANGED <<site_vars, login_required, cl_vars, rc_vars, post_vars>>

gb_Next ==
    \/ GetBookDetails
    \/ FetchLanding
    \/ GetHtmlPages
    \/ ProcessPage
    \/ FinishBook
    \/ BooksTaken

SpecCrawl == gb_Init /\ [][gb_Next]_vars

(***************************************************************************)
(* Ledger and reconcile: AuthorSheetManager                                *)
(***************************************************************************)

\* Cells are modelled by the text get_all_records shows for them; a numeric
\* cell comes back as a number and str() of it is its decimal text.
AuthorIds == {1, 2}
NumericCells == {ToString(n) : n \in AuthorIds}

\* str(is_scraped).upper()
Upper(v) ==
    IF v \in {"false", "False", "FALSE"} THEN "FALSE"
    ELSE IF v \in {"true", "True", "TRUE"} THEN "TRUE"
    ELSE v

\* `is_scraped == False`: true of a numeric cell 0 (get_all_records never
\* yields a Python bool; a boolean cell reads 'FALSE').
EqualsPyFalse(v) == v = "0"

\* A variant of the filter that keeps every record.
IsUnscrapedAny(v) == TRUE

\* The filter of get_unscraped_authors.
IsUnscraped(v) == EqualsPyFalse(v) \/ Upper(v) = "FALSE"

\* get_authors(page) after a successful request: the page's authors, [] past
\* the last page.
get_authors(src, page) ==
    IF page <= Len(src)
    THEN [k \in 1..Len(src[page]) |-> [id |-> src[page][k], is_scraped |-> FALSE]]
    ELSE <<>>

\* A variant of the diff that filters nothing.
NewRowsAll(sheet_records, df) == df

\* new_rows = df[~df["id"].astype(str).isin(existing_ids)]
NewRows(sheet_records, df) ==
    LET existing_ids == {sheet_records[k].id : k \in 1..Len(sheet_records)}
        IsNew(a) == ToString(a.id) \notin existing_ids
    IN  SelectSeq(df, IsNew)

\* The row append_row writes for an author (value_input_option USER_ENTERED):
\* the id as a number, is_scraped False shown as FALSE.
SheetRow(a) == [id |-> ToString(a.id), is_scraped |-> "FALSE"]

\* The sheet after save_authors_to_sheet appended the first n new rows (an
\* exception of append_row ends the method after the rows already written).
SheetAfterSave(sheet, df, n) ==
    LET new_rows == NewRows(sheet, df)
    IN  sheet \o [k \in 1..n |-> SheetRow(new_rows[k])]

\* get_unscraped_authors after a successful read.
get_unscraped_authors(sheet_records) ==
    LET Unscraped(record) == IsUnscraped(record.is_scraped)
    IN  SelectSeq(sheet_records, Unscraped)

\* int(author['id']) raises ValueError for a cell that is not a number.
IsNumeric(cell) == cell \in NumericCells

\* A variant of the update that writes FALSE into the row it finds.
RECURSIVE SheetAfterUpdateUnset(_, _)
SheetAfterUpdateUnset(sheet, author_id) ==
    IF Len(sheet) = 0 THEN <<>>
    ELSE IF sheet[1].id = author_id
         THEN <<[sheet[1] EXCEPT !.is_scraped = "FALSE"]>> \o Tail(sheet)
         ELSE <<sheet[1]>> \o SheetAfterUpdateUnset(Tail(sheet), author_id)

\* A variant of the update that removes the row it finds.
RECURSIVE SheetAfterUpdateDrop(_, _)
SheetAfterUpdateDrop(sheet, author_id) ==
    IF Len(sheet) = 0 THEN <<>>
    ELSE IF sheet[1].id = author_id THEN Tail(sheet)
         ELSE <<sheet[1]>> \o SheetAfterUpdateDrop(Tail(sheet), author_id)

\* update_scraped_status(author_id) after successful calls: the first row
\* whose str(id) equals str(author_id) gets TRUE; none found changes nothing.
RECURSIVE SheetAfterUpdate(_, _)
SheetAfterUpdate(sheet, author_id) ==
    IF Len(sheet) = 0 THEN <<>>
    ELSE IF sheet[1].id = author_id
         THEN <<[sheet[1] EXCEPT !.is_scraped = "TRUE"]>> \o Tail(sheet)
         ELSE <<sheet[1]>> \o SheetAfterUpdate(Tail(sheet), author_id)

RangeStop == 100

MaxSourcePages == 2
MaxLedgerRows == 2
MaxRuns == 2
MaxFailures == 1

\* Pages of the external source (non-empty lists of authors).
SourcePagePool == {<<1>>, <<1, 2>>}

\* Rows the ledger may hold before the first run.
LedgerFlagPool == {"FALSE", "TRUE"}
LedgerRows ==
    [id : NumericCells, is_scraped : LedgerFlagPool]
        \cup {[id |-> "n/a", is_scraped |-> "FALSE"]}

rc_Init ==
    /\ source \in SeqsUpTo(SourcePagePool, MaxSourcePages)
    /\ ledger \in SeqsUpTo(LedgerRows, MaxLedgerRows)
    /\ catalog = <<>>
    /\ rc_pc = "idle"
    /\ page_no = 0
    /\ authors = <<>>
    /\ unscraped_authors = <<>>
    /\ pos = 0
    /\ rc_exit = ""
    /\ failures = 0
    /\ create_calls = <<>>
    /\ run_log = <<>>
    /\ categories = <<>>
    /\ category_name = <<>>
    /\ cate_id = 0
    /\ cl_pc = "ready"
    /\ site_gated = FALSE
    /\ site_anchors = <<>>
    /\ site_empty = {}
    /\ login_required = <<>>
    /\ gb_Parked
    /\ tk_Parked
    /\ pb_Parked

\* An external call may fail while the failure budget lasts.
CallOutcomes == IF failures < MaxFailures THEN {"ok", "fail"} ELSE {"ok"}
Failed(o) == IF o = "fail" THEN 1 ELSE 0

\* The history of the current run after a paging or ledger-write call.
Logged(log, ok, n) ==
    [log EXCEPT ![Len(log)] = [clean |-> @.clean /\ ok,
                               appended |-> @.appended + n]]

\* run() is called: authors = [].
Run ==
    /\ rc_pc = "idle"
    /\ Len(run_log) < MaxRuns
    /\ run_log' = Append(run_log, [clean |-> TRUE, appended |-> 0])
    /\ rc_pc' = "fetch"
    /\ page_no' = 1
    /\ authors' = <<>>
    /\ unscraped_authors' = <<>>
    /\ pos' = 0
    /\ rc_exit' = ""
    /\ UNCHANGED <<store_vars, failures, create_calls>>
    /\ UNCHANGED <<cl_vars, gb_vars, post_vars>>

\* One iteration of `for i in range(1, 100)`: get_authors(i), any exception
\* read as an empty page; an empty page ends the loop, and so does the end
\* of the range (no request is made then).
GetAuthorsPage ==
    /\ rc_pc = "fetch"
    /\ \E o \in IF page_no >= RangeStop THEN {"ok"} ELSE CallOutcomes :
        LET new_authors == IF o = "fail" \/ page_no >= RangeStop THEN <<>>
                           ELSE get_authors(source, page_no)
        IN  /\ failures' = failures + Failed(o)
            /\ run_log' = Logged(run_log, o = "ok", 0)
            /\ IF Len(new_authors) = 0
               THEN /\ rc_pc' = "save"
                    /\ UNCHANGED <<authors, page_no>>
               ELSE /\ authors' = authors \o new_authors
                    /\ page_no' = page_no + 1
                    /\ UNCHANGED rc_pc
    /\ UNCHANGED <<store_vars, unscraped_authors, pos, rc_exit, create_calls>>
    /\ UNCHANGED <<cl_vars, gb_vars, post_vars>>

\* save_authors_to_sheet(pd.DataFrame(authors)): every exception is caught
\* inside; rows appended before the exception stay.
SaveAuthorsToSheet ==
    /\ rc_pc = "save"
    /\ \E o \in CallOutcomes :
        LET new_rows == NewRows(ledger, authors)
        IN  \E n \in 0..Len(new_rows) :
                /\ (o = "ok") = (n = Len(new_rows))
                /\ ledger' = SheetAfterSave(ledger, authors, n)
                /\ run_log' = Logged(run_log, o = "ok", n)
                /\ failures' = failures + Failed(o)
    /\ rc_pc' = "reread"
    /\ UNCHANGED <<source, catalog, rc_locals, rc_exit, create_calls>>
    /\ UNCHANGED <<cl_vars, gb_vars, post_vars>>

\* unscraped_authors = self.get_unscraped_authors(); [] on any exception;
\* run returns when the list is empty.
GetUnscrapedAuthors ==
    /\ rc_pc = "reread"
    /\ \E o \in CallOutcomes :
        LET found == IF o = "fail" THEN <<>> ELSE get_unscraped_authors(ledger)
        IN  /\ failures' = failures + Failed(o)
            /\ unscraped_authors' = found
            /\ IF Len(found) = 0
               THEN /\ rc_pc' = "idle"
                    /\ rc_exit' = "returned"
                    /\ pos' = 0
               ELSE /\ rc_pc' = "update"
                    /\ pos' = 1
                    /\ UNCHANGED rc_exit
    /\ UNCHANGED <<store_vars, page_no, authors, create_calls, run_log>>
    /\ UNCHANGED <<cl_vars, gb_vars, post_vars>>

\* self.update_scraped_status(int(author['id'])): int() raises out of run for
\* a non-numeric id; a failing ledger call is caught and changes nothing.
UpdateScrapedStatus ==
    /\ rc_pc = "update"
    /\ LET author == unscraped_authors[pos]
       IN  IF ~IsNumeric(author.id)
           THEN /\ rc_pc' = "idle"
                /\ rc_exit' = "raised"
                /\ UNCHANGED <<ledger, failures>>
           ELSE \E o \in CallOutcomes :
                /\ failures' = failures + Failed(o)
                /\ ledger' = IF o = "fail" THEN ledger
                             ELSE SheetAfterUpdate(ledger, author.id)
                /\ rc_pc' = "create"
                /\ UNCHANGED rc_exit
    /\ UNCHANGED <<source, catalog, rc_locals, create_calls, run_log>>
    /\ UNCHANGED <<cl_vars, gb_vars, post_vars>>

\* self.author_api.create(author): the POST's transport error is caught
\* nowhere and ends run; any response counts as created.
AuthorCreate ==
    /\ rc_pc = "create"
    /\ LET author == unscraped_authors[pos]
       IN  /\ create_calls' = Append(create_calls, author)
           /\ \E o \in CallOutcomes :
                /\ failures' = failures + Failed(o)
                /\ IF o = "fail"
                   THEN /\ rc_pc' = "idle"
                        /\ rc_exit' = "raised"
                        /\ UNCHANGED <<catalog, pos>>
                   ELSE /\ catalog' = Append(catalog, author.id)
                        /\ IF pos < Len(unscraped_authors)
                           THEN /\ pos' = pos + 1
                                /\ rc_pc' = "update"
                                /\ UNCHANGED rc_exit
                           ELSE /\ rc_pc' = "idle"
                                /\ rc_exit' = "returned"
                                /\ UNCHANGED pos
    /\ UNCHANGED <<source, ledger, page_no, authors, unscraped_authors,
                   run_log>>
    /\ UNCHANGED <<cl_vars, gb_vars, post_vars>>

rc_Next ==
    \/ Run
    \/ GetAuthorsPage
    \/ SaveAuthorsToSheet
    \/ GetUnscrapedAuthors
    \/ UpdateScrapedStatus
    \/ AuthorCreate

SpecSync == rc_Init /\ [][rc_Next]_vars

\* Sources long enough for the paging loop to run out of its range: n
\* non-empty pages, for n around the end of range(1, 100).
LongSourceLengths == {1, 2, 98, 99, 100, 101}
LongSource(n) == [k \in 1..n |-> IF k % 2 = 1 THEN <<1>> ELSE <<1, 2>>]

\* run() against a long source and a ledger that already holds the source's
\* authors, one of them unscraped.
pg_Init ==
    /\ source \in {LongSource(n) : n \in LongSourceLengths}
    /\ ledger = << [id |-> "1", is_scraped |-> "TRUE"],
                   [id |-> "2", is_scraped |-> "FALSE"] >>
    /\ catalog = <<>>
    /\ rc_pc = "idle"
    /\ page_no = 0
    /\ authors = <<>>
    /\ unscraped_authors = <<>>
    /\ pos = 0
    /\ rc_exit = ""
    /\ failures = 0
    /\ create_calls = <<>>
    /\ run_log = <<>>
    /\ categories = <<>>
    /\ category_name = <<>>
    /\ cate_id = 0
    /\ cl_pc = "ready"
    /\ site_gated = FALSE
    /\ site_anchors = <<>>
    /\ site_empty = {}
    /\ login_required = <<>>
    /\ gb_Parked
    /\ tk_Parked
    /\ pb_Parked

SpecPaging == pg_Init /\ [][rc_Next]_vars

\* What the is_scraped cell of a row may show besides what this pipeline
\* writes: other spellings, a number, nothing.
WideFlagCells == {"FALSE", "false", "TRUE", "true", "0", ""}
WideLedgerRows == [id : NumericCells, is_scraped : WideFlagCells]

\* run() against an empty source and a ledger whose flag cells were edited
\* by hand.
rr_Init ==
    /\ source = <<>>
    /\ ledger \in SeqsUpTo(WideLedgerRows, MaxLedgerRows)
    /\ catalog = <<>>
    /\ rc_pc = "idle"
    /\ page_no = 0
    /\ authors = <<>>
    /\ unscraped_authors = <<>>
    /\ pos = 0
    /\ rc_exit = ""
    /\ failures = 0
    /\ create_calls = <<>>
    /\ run_log = <<>>
    /\ categories = <<>>
    /\ category_name = <<>>
    /\ cate_id = 0
    /\ cl_pc = "ready"
    /\ site_gated = FALSE
    /\ site_anchors = <<>>
    /\ site_empty = {}
    /\ login_required = <<>>
    /\ gb_Parked
    /\ tk_Parked
    /\ pb_Parked

SpecReread == rr_Init /\ [][rc_Next]_vars

(***************************************************************************)
(* Token rotation: TokenAPI.get_all_tokens                                 *)
(***************************************************************************)

MaxUsers == 5

TokenValues == {"t1", "t2"}

\* A record of GET users/ (AppUser: token, is_verified).
UserRecords == [token : TokenValues, is_verified : BOOLEAN]

\* What GET users/ can do: answer 200 with the list, answer another status,
\* or fail at transport level (requests.get raises; nothing catches it).
UsersResponses == {"200", "status", "fail"}

\* random.shuffle(tokens): every reordering of the list.
Shuffles(s) ==
    {[k \in 1..Len(s) |-> s[p[k]]] : p \in Permutations(1..Len(s))}

\* A variant of the comprehension without its condition.
AllTokens(records) == [k \in 1..Len(records) |-> records[k].token]

\* [token['token'] for token in tokens if token.get('is_verified') == True]
VerifiedTokens(records) ==
    LET IsVerified(u) == u.is_verified = TRUE
        kept == SelectSeq(records, IsVerified)
    IN  [k \in 1..Len(kept) |-> kept[k].token]

tk_Init ==
    /\ users \in SeqsUpTo(UserRecords, MaxUsers)
    /\ tokens = <<>>
    /\ tk_pc = "ready"
    /\ tk_exit = ""
    /\ pb_Parked
    /\ categories = <<>>
    /\ category_name = <<>>
    /\ cate_id = 0
    /\ cl_pc = "ready"
    /\ site_gated = FALSE
    /\ site_anchors = <<>>
    /\ site_empty = {}
    /\ login_required = <<>>
    /\ gb_Parked
    /\ rc_Parked

\* get_all_tokens(): shuffle the records, keep the verified ones' tokens;
\* [] for a status other than 200.
GetAllTokens ==
    /\ tk_pc = "ready"
    /\ \E r \in UsersResponses :
        CASE r = "200" ->
                /\ \E shuffled \in Shuffles(users) :
                        tokens' = VerifiedTokens(shuffled)
                /\ tk_exit' = "ok"
          [] r = "status" ->
                /\ tokens' = <<>>
                /\ tk_exit' = "status"
          [] r = "fail" ->
                /\ tokens' = <<>>
                /\ tk_exit' = "raised"
    /\ tk_pc' = "returned"
    /\ UNCHANGED <<users, pb_vars, cl_vars, gb_vars, rc_vars>>

\* The caller takes the list (or the exception).
TokensTaken ==
    /\ tk_pc = "returned"
    /\ tk_pc' = "ready"
    /\ tokens' = <<>>
    /\ tk_exit' = ""
    /\ UNCHANGED <<users, pb_vars, cl_vars, gb_vars, rc_vars>>

tk_Next == GetAllTokens \/ TokensTaken

SpecTokens == tk_Init /\ [][tk_Next]_vars

(***************************************************************************)
(* Posting pipeline: BookspointerAPI.post_book                             *)
(***************************************************************************)

MaxPosts == 2

BookIds == {1, 2}

\* The category text post_book compares with (the "incomplete book" marker).
IncompleteBook == "osompurno boi"

\* The book dict handed to post_book for a catalog book.
BookArg(b) ==
    [book_id |-> b,
     title |-> IF b = 1 THEN "T1" ELSE "T2",
     category |-> IF b = 1 THEN IncompleteBook ELSE "uponyas",
     category_id |-> IF b = 1 THEN 20 ELSE 3,
     author_id |-> 42,
     content |-> "<div>A</div>"]

\* series, as computed at the head of post_book.
SeriesName(bk) == IF bk.category = IncompleteBook THEN IncompleteBook ELSE ""

\* data_dict, the JSON envelope sent as the multipart field `data`.
Envelope(bk) ==
    [title |-> bk.title,
     category |-> [id |-> bk.category_id],
     author |-> [id |-> bk.author_id],
     content |-> bk.content,
     tags |-> <<>>,
     seriesName |-> SeriesName(bk)]

\* What requests.post to the publisher can give: a transport error, a body
\* that is not JSON, or a JSON object whose last_book is absent, null, an
\* object without id or an object with id, with or without a message field.
LastBookShapes == {"absent", "null", "no_id", "id"}
PublisherResponses ==
    {[kind |-> "error", last_book |-> "absent", has_message |-> FALSE],
     [kind |-> "text", last_book |-> "absent", has_message |-> FALSE]}
        \cup [kind : {"json"}, last_book : LastBookShapes,
              has_message : BOOLEAN]

\* What the catalog's PATCH books/{id}/ can do: apply the update, answer
\* with an error status, or fail at transport level.
PatchOutcomes == {"ok", "rejected", "fail"}

\* A variant of the try block in which a missing key is any other error.
TryBlockNoKeyError(resp) ==
    IF resp.kind = "json" /\ resp.last_book = "id" THEN "ok" ELSE "Exception"

\* response.json()['last_book']['id']: the value, a KeyError, or another
\* exception (JSON decoding, subscripting None).
TryBlock(resp) ==
    IF resp.kind # "json" THEN "Exception"
    ELSE CASE resp.last_book = "id" -> "ok"
           [] resp.last_book \in {"absent", "no_id"} -> "KeyError"
           [] resp.last_book = "null" -> "Exception"

\* response.json()['message'] inside `except KeyError`.
HandlerMessage(resp) == IF resp.has_message THEN "ok" ELSE "KeyError"

\* A variant of the payload that clears the flag.
PostedUpdateFalse == [is_posted |-> FALSE]

\* The payload of both book_api.update calls.
PostedUpdate == [is_posted |-> TRUE]

\* The catalog's flags after PATCH books/{book_id}/ with updated_data.
PatchBook(flags, book_id, updated_data, answer) ==
    IF answer = "ok"
    THEN [flags EXCEPT ![book_id] = updated_data.is_posted]
    ELSE flags

\* What `isinstance(response, dict) and response.get("status") == "error"`
\* gives for the requests.Response that self._patch returns.
IsErrorDict(answer) == FALSE

NoReturn == [success |-> FALSE, called |-> FALSE]

\* The value BookAPI.update returns when the PATCH was answered.
BookAPI_update(answer) ==
    IF IsErrorDict(answer)
    THEN [success |-> FALSE, called |-> TRUE]
    ELSE [success |-> TRUE, called |-> TRUE]

\* The control flow of post_book for a publisher response and a PATCH
\* outcome: the branch that composes the message, whether the PATCH was
\* sent, and whether an exception leaves post_book.
post_book(resp, patch) ==
    IF resp.kind = "error"
    THEN [branch |-> "request", patched |-> FALSE, raised |-> TRUE]
    ELSE CASE TryBlock(resp) = "ok" ->
                IF patch = "fail"
                THEN [branch |-> "failed", patched |-> TRUE, raised |-> FALSE]
                ELSE [branch |-> "created", patched |-> TRUE,
                      raised |-> FALSE]
           [] TryBlock(resp) = "KeyError" ->
                IF HandlerMessage(resp) = "KeyError"
                THEN [branch |-> "message", patched |-> FALSE,
                      raised |-> TRUE]
                ELSE [branch |-> "message", patched |-> TRUE,
                      raised |-> patch = "fail"]
           [] TryBlock(resp) = "Exception" ->
                [branch |-> "failed", patched |-> FALSE, raised |-> FALSE]

pb_Init ==
    /\ posted \in [BookIds -> BOOLEAN]
    /\ post_log = <<>>
    /\ tk_Parked
    /\ categories = <<>>
    /\ category_name = <<>>
    /\ cate_id = 0
    /\ cl_pc = "ready"
    /\ site_gated = FALSE
    /\ site_anchors = <<>>
    /\ site_empty = {}
    /\ login_required = <<>>
    /\ gb_Parked
    /\ rc_Parked

\* post_book(book) for a catalog book, from the publisher request to the
\* message (or the exception).
PostBook ==
    /\ Len(post_log) < MaxPosts
    /\ \E b \in BookIds, resp \in PublisherResponses, patch \in PatchOutcomes :
        LET bk == BookArg(b)
            out == post_book(resp, patch)
            after == IF out.patched
                     THEN PatchBook(posted, bk.book_id, PostedUpdate, patch)
                     ELSE posted
        IN  /\ posted' = after
            /\ post_log' = Append(post_log,
                    [book_id |-> bk.book_id,
                     data |-> Envelope(bk),
                     resp |-> resp,
                     patch |-> IF out.patched THEN patch ELSE "none",
                     update_book |-> IF out.patched /\ patch # "fail"
                                     THEN BookAPI_update(patch)
                                     ELSE NoReturn,
                     before |-> posted[bk.book_id],
                     after |-> after[bk.book_id],
                     branch |-> out.branch,
                     raised |-> out.raised])
    /\ UNCHANGED <<tk_vars, cl_vars, gb_vars, rc_vars>>

pb_Next == PostBook

SpecPost == pb_Init /\ [][pb_Next]_vars

(***************************************************************************)
(* Inputs of the classifier                                                *)
(***************************************************************************)

MaxLabels == 2
MaxTable == 2

\* Labels a landing page may carry (span.entry-terms-ld_course_category a).
LabelPool == {
    <<"itihas">>, <<"uponyas">>, <<"bhoutik">>, <<"onubad">>,
    <<"golper">>, <<"boi">>, <<"Editor's", SP, "Choice">> }

\* Labels and ids of taxonomy entries.
TableLabelPool == {
    <<"uponyas">>, <<"onubad">>, <<"bhoutik", SP, "uponyas">>,
    <<"itihas", SP, "bhoutik">> }
TableIdPool == {7, 19}

Entries == [label : TableLabelPool, id : TableIdPool]

\* Taxonomy tables: a label occurs at most once.
Tables ==
    {t \in SeqsUpTo(Entries, MaxTable) :
        \A i, j \in 1..Len(t) : t[i].label = t[j].label => i = j}

LabelSeqs == SeqsUpTo(LabelPool, MaxLabels)

NoLabels == <<>>

cl_Init ==
    /\ categories \in Tables
    /\ category_name = NoLabels
    /\ cate_id = 0
    /\ cl_pc = "ready"
    /\ site_gated = FALSE
    /\ site_anchors = <<>>
    /\ site_empty = {}
    /\ login_required = <<>>
    /\ gb_Parked
    /\ rc_Parked
    /\ tk_Parked
    /\ pb_Parked

\* A call of get_cate_id with some label sequence.
GetCateId ==
    /\ cl_pc = "ready"
    /\ \E labels \in LabelSeqs :
        /\ category_name' = labels
        /\ cate_id' = get_cate_id(categories, labels)
    /\ cl_pc' = "returned"
    /\ UNCHANGED <<categories, gb_vars, rc_vars, post_vars>>

\* The caller takes the result; the classifier keeps no state.
CateIdTaken ==
    /\ cl_pc = "returned"
    /\ cl_pc' = "ready"
    /\ category_name' = NoLabels
    /\ cate_id' = 0
    /\ UNCHANGED <<categories, gb_vars, rc_vars, post_vars>>

cl_Next == GetCateId \/ CateIdTaken

SpecClassify == cl_Init /\ [][cl_Next]_vars

(***************************************************************************)
(* Claims about the classifier (checked under SpecClassify)                *)
(***************************************************************************)

Key == Join(category_name, SP)
Bhoutik == <<"bhoutik">>
HorrorId == 19

\* The key is the label of some entry of the table.
IsExactLabel(key) == \E i \in 1..Len(categories) : categories[i].label = key

\* Some rule that precedes the 'bhoutik' rule in the chain matches the key.
EarlierRuleThanHorror(key) ==
    LET h == CHOOSE r \in 1..Len(Rules) : Rules[r].pat = Bhoutik
    IN  \E r \in 1..(h - 1) : Contains(key, Rules[r].pat)

\* C1: whenever the joined key equals the label of any entry of the table,
\* get_cate_id returns that entry's id (exact match before substring rules).
C1_ExactMatchAnyEntry ==
    cl_pc = "returned" =>
        \A i \in 1..Len(categories) :
            categories[i].label = Key => cate_id = categories[i].id

\* C2: for an empty label sequence get_cate_id returns 20, whatever the table.
C2_EmptyLabelsDefault ==
    (cl_pc = "returned" /\ category_name = <<>>) => cate_id = DefaultId

C2_Witness ==
    /\ cl_pc = "returned"
    /\ category_name = <<>>
    /\ Len(categories) = MaxTable
    /\ cate_id = DefaultId

MatchingRules(key) == {r \in 1..Len(Rules) : Contains(key, Rules[r].pat)}

\* The id of the matching rule that comes first in the priority order, 20
\* when no rule matches.
FirstRuleId(key) ==
    IF MatchingRules(key) = {} THEN 20
    ELSE LET first == CHOOSE r \in MatchingRules(key) :
                        \A q \in MatchingRules(key) : r <= q
         IN  Rules[first].id

\* C25: for a key that is the label of no table entry, get_cate_id returns
\* the id of the first rule in the priority order whose text occurs in the
\* key, and 20 when none does, whatever the table holds.
C25_FirstRuleWinsAnyTable ==
    (cl_pc = "returned" /\ ~IsExactLabel(Key)) => cate_id = FirstRuleId(Key)

(***************************************************************************)
(* Claims about the crawl orchestrator (checked under SpecCrawl)           *)
(***************************************************************************)

Completed == gb_pc = "returned" /\ gb_exit = "completed"

\* Page i was fetched and its content container is not empty.
NonEmptyPage(i) == fetched[i] = "ok" /\ books_urls[i] \notin site_empty

\* Page i was fetched and its content container is empty.
EmptyPage(i) == fetched[i] = "ok" /\ books_urls[i] \in site_empty

\* The content and title the fetcher extracts from page i.
ExtractedFrom(i) == get_book_content(books_urls[i], site_empty, "ok")

\* The indexes of the non-empty pages among pages i..n, in resolver order.
RECURSIVE NonEmptyFrom(_)
NonEmptyFrom(i) ==
    IF i > Len(fetched) THEN <<>>
    ELSE (IF NonEmptyPage(i) THEN <<i>> ELSE <<>>) \o NonEmptyFrom(i + 1)

NonEmptyIdx == NonEmptyFrom(1)

NonEmptyContents ==
    [k \in 1..Len(NonEmptyIdx) |-> ExtractedFrom(NonEmptyIdx[k]).content]

RECURSIVE Count(_, _)
Count(s, x) ==
    IF Len(s) = 0 THEN 0
    ELSE (IF s[1] = x THEN 1 ELSE 0) + Count(Tail(s), x)

\* C4: in aggregate mode the call returns one book whose content is the
\* non-empty page contents joined with <br/>, in resolver order, with no
\* leading or trailing separator.
C4_AggregateJoinsNonEmptyPages ==
    (Completed /\ ~call.multi_page /\ Len(NonEmptyIdx) > 0)
        => /\ Len(result) = 1
           /\ result[1].content = Join(NonEmptyContents, BR)

\* C5: in aggregate mode a book all of whose pages were fetched and are
\* empty is discarded: the call returns no book.
C5_AllEmptyPagesDiscarded ==
    (Completed /\ ~call.multi_page /\ Len(books_urls) > 0
        /\ \A i \in 1..Len(books_urls) : EmptyPage(i))
        => result = <<>>

\* C6: in split mode the call returns one book per non-empty page and none
\* for an empty page; each has the landing page's author, author id,
\* category, category id, series and book id and its own page's title,
\* content and URL.
C6_SplitOneBookPerNonEmptyPage ==
    (Completed /\ call.multi_page)
        => /\ Len(result) = Len(NonEmptyIdx)
           /\ \A k \in 1..Len(result) :
                LET landing == LandingBook(categories, call.book_info,
                                           call.author_id)
                    b == result[k]
                    i == NonEmptyIdx[k]
                IN  /\ b.author = landing.author
                    /\ b.author_id = landing.author_id
                    /\ b.category = landing.category
                    /\ b.category_id = landing.category_id
                    /\ b.series = landing.series
                    /\ b.book_id = landing.book_id
                    /\ b.url = books_urls[i]
                    /\ b.content = ExtractedFrom(i).content
                    /\ b.title =
                         remove_bangla_number_prefix(ExtractedFrom(i).title)

\* C7: a crawl of an access-gated landing page returns no book, and however
\* often the book is crawled the skip-log holds exactly one line for its URL.
C7_GatedOneSkipLine ==
    (Completed /\ site_gated)
        => /\ result = <<>>
           /\ Count(login_required, call.book_info.link) = 1

\* C8: what landing-page discovery returns for an access-gated book differs
\* from what it returns for an ungated landing page without page anchors.
C8_GatedDistinctFromNoPages ==
    (gb_pc = "pages" /\ site_gated)
        => books_urls # get_html_pages(FALSE, <<>>)

\* The indexes of the pages among i..n whose fetch succeeded, in resolver
\* order.
RECURSIVE OkFrom(_)
OkFrom(i) ==
    IF i > Len(fetched) THEN <<>>
    ELSE (IF fetched[i] = "ok" THEN <<i>> ELSE <<>>) \o OkFrom(i + 1)

OkIdx == OkFrom(1)

OkContents == [k \in 1..Len(OkIdx) |-> ExtractedFrom(OkIdx[k]).content]

\* C18: the resolver returns the anchors in page order, repeated ones
\* included; in aggregate mode the book's content is the join of the
\* initial '' and the fetched pages' contents by increasing resolver index;
\* in split mode the k-th returned book is the k-th fetched page.
C18_PageOrderPreserved ==
    /\ (gb_pc = "pages" /\ ~site_gated) => books_urls = site_anchors
    /\ (Completed /\ ~call.multi_page)
            => /\ contents = << <<>> >> \o OkContents
               /\ Len(result) <= 1
               /\ \A n \in 1..Len(result) :
                    result[n].content = Join(<< <<>> >> \o OkContents, BR)
    /\ (Completed /\ call.multi_page)
            => /\ Len(result) = Len(OkIdx)
               /\ \A k \in 1..Len(result) :
                    /\ result[k].url = books_urls[OkIdx[k]]
                    /\ result[k].content = OkContents[k]

\* A completed aggregate crawl of three pages, one URL occurring twice and
\* out of the alphabetical order, all fetched.
C18_Witness ==
    /\ Completed
    /\ ~call.multi_page
    /\ books_urls = <<"p2", "p1", "p2">>
    /\ site_empty = {}
    /\ OkIdx = <<1, 2, 3>>
    /\ Len(result) = 1

\* C19: a transport failure of the landing-page request, in get_book_details
\* or in the resolver, ends the call with a normal return of the empty list.
C19_LandingFailureReturnsEmpty ==
    (gb_pc = "returned" /\ gb_exit \in {"landing_error", "resolver_error"})
        => /\ result = <<>>
           /\ fetched = <<>>

\* The resolver's request failed after the book record had been built from
\* the landing page.
C19_Witness ==
    /\ gb_pc = "returned"
    /\ gb_exit = "resolver_error"
    /\ book # NoBook
    /\ result = <<>>

\* C20: in a completed crawl of a multi-page book in which some page's
\* request failed, every page was requested exactly once, the failed pages
\* contributed nothing and every other page contributed (aggregate: an
\* element of contents; split: a book).
C20_FailedPageSkippedOthersKept ==
    (Completed /\ Len(books_urls) > 1
        /\ \E i \in 1..Len(fetched) : fetched[i] = "fail")
        => /\ Len(fetched) = Len(books_urls)
           /\ Count(fetched, "ok") = Len(OkIdx)
           /\ IF call.multi_page
              THEN /\ Len(result) = Count(fetched, "ok")
                   /\ \A k \in 1..Len(OkIdx) :
                        \E n \in 1..Len(result) :
                            /\ result[n].url = books_urls[OkIdx[k]]
                            /\ result[n].content = OkContents[k]
              ELSE /\ Len(contents) = 1 + Count(fetched, "ok")
                   /\ \A k \in 1..Len(OkIdx) :
                        \E n \in 2..Len(contents) :
                            contents[n] = OkContents[k]

\* A completed crawl of three pages whose second request failed while the
\* first and third were fetched.
C20_Witness ==
    /\ Completed
    /\ Len(books_urls) = 3
    /\ fetched = <<"ok", "fail", "ok">>

\* ContentAggregated: the call reached the join of the contents.
ContentAggregated == gb_exit = "completed"

\* The terminal states of a book, read off a call that has returned.
\* AccessGated: the landing page was gated, its URL went to the skip-log, no
\* page sequence was resolved and nothing is handed over.
AccessGated ==
    /\ ContentAggregated
    /\ site_gated
    /\ books_urls = <<>>
    /\ Count(login_required, call.book_info.link) > 0
    /\ result = <<>>

\* Discarded: an ungated book whose pages were resolved and walked and of
\* which nothing is handed over.
Discarded ==
    /\ ContentAggregated
    /\ ~site_gated
    /\ Len(fetched) = Len(books_urls)
    /\ result = <<>>

\* Persisted: an ungated book whose pages were resolved and walked and of
\* which at least one record is handed over, each built from the landing
\* page.
Persisted ==
    /\ ContentAggregated
    /\ ~site_gated
    /\ Len(fetched) = Len(books_urls)
    /\ result # <<>>
    /\ \A n \in 1..Len(result) : result[n].book_id = book.book_id

TerminalStates ==
    (IF AccessGated THEN 1 ELSE 0) + (IF Discarded THEN 1 ELSE 0)
        + (IF Persisted THEN 1 ELSE 0)

\* No content page is requested before the landing page was fetched, nor
\* before the page sequence was resolved, nor for a gated book.
ContentAfterLanding ==
    fetched # <<>>
        => /\ book # NoBook
           /\ ~site_gated
           /\ books_urls = site_anchors
           /\ Len(fetched) <= Len(books_urls)

\* C23 as stated: every call of get_book_details that has ended left its
\* book in exactly one of AccessGated, Discarded and Persisted, and content
\* pages are requested only after the landing page and never for a gated
\* book.
C23_EveryBookEndsInTerminalState ==
    /\ ContentAfterLanding
    /\ gb_pc = "returned" => TerminalStates = 1

\* C23 amended: a call that walked its page loop to the end leaves its book
\* in exactly one of the three terminal states; a call cut short by a
\* transport failure of a landing-page request returns the empty list and a
\* call cut short by a missing element raises, both leaving the book in none
\* of them; content pages are requested only after the landing page and
\* never for a gated book.
C23_CompletedEndsInTerminalState ==
    /\ ContentAfterLanding
    /\ Completed => TerminalStates = 1
    /\ (gb_pc = "returned" /\ ~Completed)
            => /\ gb_exit \in {"landing_error", "resolver_error", "raised"}
               /\ result = <<>>
               /\ TerminalStates = 0

\* A completed crawl of a gated book whose landing page carries page
\* anchors: none of them was requested.
C23_Witness ==
    /\ Completed
    /\ site_gated
    /\ site_anchors # <<>>
    /\ fetched = <<>>
    /\ AccessGated

\* C24: no record an aggregate-mode call returns has the empty string as
\* its content, and a book whose joined content is the empty string is not
\* in the result.
C24_NoEmptyAggregateBook ==
    (Completed /\ ~call.multi_page)
        => /\ \A n \in 1..Len(result) : result[n].content # <<>>
           /\ Join(contents, BR) = <<>> => result = <<>>

\* A completed aggregate crawl of an ungated book with pages, every request
\* of which failed: the joined content is empty and the book is dropped.
C24_Witness ==
    /\ Completed
    /\ ~call.multi_page
    /\ ~site_gated
    /\ Len(books_urls) > 1
    /\ Count(fetched, "fail") = Len(books_urls)
    /\ Join(contents, BR) = <<>>
    /\ result = <<>>

(***************************************************************************)
(* Claims about reconcile (checked under SpecSync)                         *)
(***************************************************************************)

\* C9: a run that follows a run without paging or ledger-write failure,
\* against the same source and the ledger that run left, appends no row.
C9_SecondRunAppendsNothing ==
    \A r \in 2..Len(run_log) :
        run_log[r - 1].clean => run_log[r].appended = 0

\* Two completed runs, the first of which appended rows.
C9_Witness ==
    /\ Len(run_log) = 2
    /\ run_log[1].clean
    /\ run_log[1].appended > 0
    /\ run_log[2].clean
    /\ rc_pc = "idle"
    /\ rc_exit = "returned"

\* C10: no record handed to author_api.create had a true scraped flag when
\* the ledger was re-read.
C10_NoCreateForScrapedRow ==
    \A k \in 1..Len(create_calls) :
        Upper(create_calls[k].is_scraped) # "TRUE"

\* A create call in a run whose re-read skipped an already scraped row.
C10_Witness ==
    /\ rc_pc = "idle"
    /\ rc_exit = "returned"
    /\ Len(create_calls) > 0
    /\ Len(unscraped_authors) > 0
    /\ Len(unscraped_authors) < Len(ledger)
    /\ \E k \in 1..Len(ledger) : ledger[k].is_scraped = "TRUE"

\* The record run() is working on in step 4.
CurrentAuthor == unscraped_authors[pos]

\* The sheet holds a row of this identifier.
HasRow(sheet, id) == \E k \in 1..Len(sheet) : sheet[k].id = id

\* The sheet holds a row of this identifier whose flag reads TRUE.
HasScrapedRow(sheet, id) ==
    \E k \in 1..Len(sheet) :
        sheet[k].id = id /\ Upper(sheet[k].is_scraped) = "TRUE"

\* C11: whenever author_api.create is about to be called for an author, a
\* ledger row of that author already carries scraped = TRUE.
C11_FlagTrueBeforeCreate ==
    rc_pc = "create" => HasScrapedRow(ledger, CurrentAuthor.id)

\* C12: over any sequence of runs, failing calls included, no identifier is
\* handed to author_api.create twice.
C12_CreateAtMostOnce ==
    \A i, j \in 1..Len(create_calls) :
        i < j => create_calls[i].id # create_calls[j].id

\* C13: whenever run() is about to flip an author's flag or to create the
\* author in the catalog, the ledger holds a row of that author.
C13_RowBeforeFlipAndCreate ==
    rc_pc \in {"update", "create"} => HasRow(ledger, CurrentAuthor.id)

\* The create call of an author whose row this run's step 2 appended to an
\* empty ledger.
C13_Witness ==
    /\ rc_pc = "create"
    /\ Len(run_log) = 1
    /\ run_log[1].appended > 0
    /\ run_log[1].appended = Len(ledger)

\* No identifier occurs in two rows of the sheet.
NoDuplicateIds(sheet) ==
    \A i, j \in 1..Len(sheet) : sheet[i].id = sheet[j].id => i = j

\* C26: whatever the batch, save_authors_to_sheet turns a ledger in which no
\* identifier is repeated into one in which none is, and keeps the rows it
\* found.
C26_SaveKeepsIdsUnique ==
    [][(rc_pc = "save" /\ NoDuplicateIds(ledger))
            => /\ NoDuplicateIds(ledger')
               /\ SubSeq(ledger', 1, Len(ledger)) = ledger]_vars

\* C28: a run of reconcile never raises, and when it has ended every author
\* that step 3 found unscraped has been processed.
C28_FailureLocalToAuthor ==
    (rc_pc = "idle" /\ Len(run_log) > 0)
        => /\ rc_exit = "returned"
           /\ pos = Len(unscraped_authors)

\* C29: no step of reconcile removes or renames a ledger row; an existing
\* row's flag changes only to TRUE, so a flag that reads TRUE stays TRUE;
\* the rows a step appends carry FALSE.
C29_ScrapedFlagMonotonic ==
    [][/\ Len(ledger') >= Len(ledger)
       /\ \A k \in 1..Len(ledger) :
            /\ ledger'[k].id = ledger[k].id
            /\ \/ ledger'[k].is_scraped = ledger[k].is_scraped
               \/ ledger'[k].is_scraped = "TRUE"
            /\ Upper(ledger[k].is_scraped) = "TRUE"
                => Upper(ledger'[k].is_scraped) = "TRUE"
       /\ \A k \in (Len(ledger) + 1)..Len(ledger') :
            ledger'[k].is_scraped = "FALSE"]_vars

\* Two runs have ended; the first appended rows; authors were flipped and
\* created; every row of the ledger, a repeated identifier among them,
\* reads TRUE.
C29_Witness ==
    /\ rc_pc = "idle"
    /\ rc_exit = "returned"
    /\ Len(run_log) = 2
    /\ run_log[1].appended > 0
    /\ Len(catalog) >= 2
    /\ ~NoDuplicateIds(ledger)
    /\ \A k \in 1..Len(ledger) : ledger[k].is_scraped = "TRUE"

\* C30: when a run in which no external call failed has returned, the ledger
\* holds no unscraped row.
C30_CleanRunLeavesNoUnscrapedRow ==
    (rc_pc = "idle" /\ rc_exit = "returned" /\ failures = 0)
        => Len(get_unscraped_authors(ledger)) = 0

(***************************************************************************)
(* Claims about the paging loop of reconcile (checked under SpecPaging)    *)
(***************************************************************************)

\* The page-count ceiling of the specification.
PageCeiling == 100

\* The authors of source pages 1..n, in page order.
RECURSIVE PagesConcat(_, _)
PagesConcat(src, n) ==
    IF n = 0 THEN <<>>
    ELSE PagesConcat(src, n - 1) \o get_authors(src, n)

\* C21: when the paging loop has ended, the batch holds the authors of the
\* pages before the stop in page order, and the loop stopped either at an
\* empty page, at a page whose request failed, or after 100 pages.
C21_PagingStopsAtEmptyFailOrCeiling ==
    rc_pc = "save"
        => /\ authors = PagesConcat(source, page_no - 1)
           /\ \/ page_no - 1 = PageCeiling
              \/ get_authors(source, page_no) = <<>>
              \/ ~run_log[Len(run_log)].clean

(***************************************************************************)
(* Claims about the re-read of the ledger (checked under SpecReread)       *)
(***************************************************************************)

\* The flag cell shows boolean false or the text 'false' in some case.
IsFalseFlag(v) == v \in {"FALSE", "False", "false"}

FalseFlagRows(sheet) ==
    LET Test(record) == IsFalseFlag(record.is_scraped)
    IN  SelectSeq(sheet, Test)

\* C22: the list a successful get_unscraped_authors hands to step 4 is
\* exactly the ledger rows whose flag is boolean false or the text 'false'
\* in any case, in ledger order.
C22_UnscrapedExactlyFalseRows ==
    /\ (rc_pc = "update" /\ pos = 1)
            => unscraped_authors = FalseFlagRows(ledger)
    /\ (rc_pc = "idle" /\ rc_exit = "returned" /\ failures = 0)
            => FalseFlagRows(ledger) = <<>>

(***************************************************************************)
(* Claims about token rotation (checked under SpecTokens)                  *)
(***************************************************************************)

\* The user records carrying this token with this verified flag.
UsersWith(t, v) ==
    {k \in 1..Len(users) : users[k].token = t /\ users[k].is_verified = v}

Verified == {k \in 1..Len(users) : users[k].is_verified}
Unverified == {k \in 1..Len(users) : ~users[k].is_verified}

HasLastBookId(resp) == resp.kind = "json" /\ resp.last_book = "id"

\* The publisher's answer is JSON without last_book.id (the key last_book or
\* its key id is missing) and carries a message field.
HasMessageOnly(resp) ==
    /\ resp.kind = "json"
    /\ resp.last_book \in {"absent", "no_id"}
    /\ resp.has_message

C16_PostBookNeverRaises ==
    \A k \in 1..Len(post_log) : ~post_log[k].raised

\* C17: no step of the posting pipeline turns a true posted flag false.
C17_PostedMonotonic ==
    [][\A b \in DOMAIN posted : posted[b] => posted'[b]]_vars

\* A book posted twice, both times with the flag update applied, and true
\* after each.
C17_Witness ==
    \E i, j \in 1..Len(post_log) :
        /\ i < j
        /\ post_log[i].book_id = post_log[j].book_id
        /\ post_log[i].patch = "ok"
        /\ post_log[i].after
        /\ post_log[j].before
        /\ post_log[j].patch = "ok"
        /\ post_log[j].after

\* C27: what book_api.update returned to post_book says success only if the
\* catalog applied the update, and says failure whenever the catalog
\* answered the PATCH with an error status.
C27_RejectedUpdateReportedFailed ==
    \A k \in 1..Len(post_log) :
        LET e == post_log[k]
        IN  /\ e.patch = "rejected"
                => (e.update_book.called /\ ~e.update_book.success)
            /\ (e.update_book.called /\ e.update_book.success)
                => (e.patch = "ok" /\ e.after = TRUE)

=============================================================================
